---- MODULE Spec2Model ----
(***************************************************************************)
(* Model of watch_fumotoppara.py: the reservation-calendar watcher.        *)
(*                                                                         *)
(* A Python string is a sequence of one-character tokens.  A character     *)
(* outside ASCII is written as one token with an ASCII name ("MARU" is the *)
(* availability circle U+3007, "CIRCLE" is U+25CB, "SANKAKU" the triangle, *)
(* "BATSU" the cross, "KI","YA","N","PU",... the letters of the row        *)
(* labels).  The fixed Japanese fragments of the messages the program only *)
(* formats and never inspects are one token each ("<...>").                *)
(*                                                                         *)
(* The page is what the program's DOM queries return: the browser, the     *)
(* wait for the table and the HTTP delivery are outside the model.         *)
(***************************************************************************)
EXTENDS Integers, Sequences, FiniteSets, TLC

(***************************************************************************)
(* page                 the table as the DOM queries return it             *)
(* TARGET_ROWS, TARGET_DATE_LABELS, ALWAYS_NOTIFY   the configuration      *)
(* pc                   where main is: "loop", inside fetch_cell_symbol    *)
(*                      ("row", "cell"), "classify", "report", "done"      *)
(* ri, di               positions of the two nested for loops (1-based)    *)
(* headers, cands, col_idx, target_row   locals of the running call;       *)
(*                      target_row is the 0-based position of the row      *)
(* results              the dict, as its entries in insertion order        *)
(* failed               the keys last stored by the except branch (the     *)
(*                      Failure results; the other keys are Symbols)       *)
(* alerts, errors       the two lists of main                              *)
(* printed, sent        the text printed, the messages given to            *)
(*                      line_broadcast                                     *)
(***************************************************************************)
VARIABLES page, TARGET_ROWS, TARGET_DATE_LABELS, ALWAYS_NOTIFY,
          pc, ri, di, headers, cands, col_idx, target_row,
          results, failed, alerts, errors, printed, sent

vars == <<page, TARGET_ROWS, TARGET_DATE_LABELS, ALWAYS_NOTIFY,
          pc, ri, di, headers, cands, col_idx, target_row,
          results, failed, alerts, errors, printed, sent>>

(***************************************************************************)
(* Bounds of the input domains.                                            *)
(***************************************************************************)
MaxRowLabels == 2
MaxDateLabels == 2
MaxHeaders == 3
MaxCells == 3
MaxCols == 3
MaxRows == 3
MaxDayLen == 3

(***************************************************************************)
(* Python values and string primitives.                                    *)
(***************************************************************************)
None == -1

Whitespace == {" ", "\n", "\t"}

\* sub in s
Contains(s, sub) ==
    \E i \in 0..(Len(s) - Len(sub)) : SubSeq(s, i + 1, i + Len(sub)) = sub

\* s.startswith(p)
StartsWith(s, p) == Len(p) <= Len(s) /\ SubSeq(s, 1, Len(p)) = p

RECURSIVE LStrip(_, _)
\* s.lstrip(chars)
LStrip(s, chars) ==
    IF s # <<>> /\ Head(s) \in chars THEN LStrip(Tail(s), chars) ELSE s

RECURSIVE RStrip(_, _)
RStrip(s, chars) ==
    IF s # <<>> /\ s[Len(s)] \in chars
    THEN RStrip(SubSeq(s, 1, Len(s) - 1), chars)
    ELSE s

\* s.strip()
Strip(s) == RStrip(LStrip(s, Whitespace), Whitespace)

RECURSIVE CollapseWs(_)
\* re.sub(r"\s+", " ", s)
CollapseWs(s) ==
    IF s = <<>> THEN <<>>
    ELSE IF Head(s) \in Whitespace
         THEN <<" ">> \o CollapseWs(LStrip(s, Whitespace))
         ELSE <<Head(s)>> \o CollapseWs(Tail(s))

normalize_text(s) == Strip(CollapseWs(s))

RECURSIVE FindChar(_, _, _)
\* position (1-based) of the first occurrence of c in s from i on, 0 if none
FindChar(s, c, i) ==
    IF i > Len(s) THEN 0
    ELSE IF s[i] = c THEN i
    ELSE FindChar(s, c, i + 1)

RECURSIVE Zeros(_)
Zeros(n) == IF n <= 0 THEN <<>> ELSE <<"0">> \o Zeros(n - 1)

\* s.zfill(width): zeros go after a leading sign
ZFill(s, width) ==
    IF Len(s) >= width THEN s
    ELSE IF s # <<>> /\ Head(s) \in {"+", "-"}
         THEN <<Head(s)>> \o Zeros(width - Len(s)) \o Tail(s)
         ELSE Zeros(width - Len(s)) \o s

Digit(n) == CASE n = 0 -> "0" [] n = 1 -> "1" [] n = 2 -> "2" [] n = 3 -> "3"
              [] n = 4 -> "4" [] n = 5 -> "5" [] n = 6 -> "6" [] n = 7 -> "7"
              [] n = 8 -> "8" [] n = 9 -> "9"

RECURSIVE NatStr(_)
NatStr(n) == IF n < 10 THEN <<Digit(n)>> ELSE NatStr(n \div 10) \o <<Digit(n % 10)>>

\* str(n) of an int
IntStr(n) == IF n < 0 THEN <<"-">> \o NatStr(0 - n) ELSE NatStr(n)

(***************************************************************************)
(* _date_candidates and pick_column_index.                                 *)
(***************************************************************************)
\* the zero-padded variant left out
_date_candidates_unpadded(label0) ==
    LET label == Strip(label0)
        p == FindChar(label, "/", 1)
    IN  IF p > 0
        THEN LET mon == SubSeq(label, 1, p - 1)
                 day == SubSeq(label, p + 1, Len(label))
                 day_nz == IF LStrip(day, {"0"}) # <<>> THEN LStrip(day, {"0"}) ELSE <<"0">>
             IN  {mon \o <<"/">> \o day_nz}
        ELSE {label}

_date_candidates(label0) ==
    LET label == Strip(label0)
        p == FindChar(label, "/", 1)
    IN  IF p > 0
        THEN LET mon == SubSeq(label, 1, p - 1)
                 day == SubSeq(label, p + 1, Len(label))
                 day_nz == IF LStrip(day, {"0"}) # <<>> THEN LStrip(day, {"0"}) ELSE <<"0">>
                 day_z2 == IF Len(day) = 2 THEN day ELSE ZFill(day, 2)
             IN  {mon \o <<"/">> \o day_nz, mon \o <<"/">> \o day_z2}
        ELSE {label}

RECURSIVE ScanHeaders(_, _, _)
\* the loop of pick_column_index from position i (1-based); the result is 0-based
ScanHeaders(hs, cs, i) ==
    IF i > Len(hs) THEN None
    ELSE IF \E c \in cs : Contains(normalize_text(hs[i]), c) THEN i - 1
    ELSE ScanHeaders(hs, cs, i + 1)

RECURSIVE ScanHeadersLast(_, _, _)
\* the scan keeps going after a match: the last matching header wins
ScanHeadersLast(hs, cs, i) ==
    IF i < 1 THEN None
    ELSE IF \E c \in cs : Contains(normalize_text(hs[i]), c) THEN i - 1
    ELSE ScanHeadersLast(hs, cs, i - 1)

pick_last_column_index(hs, date_label) ==
    ScanHeadersLast(hs, _date_candidates(date_label), Len(hs))

pick_column_index(hs, date_label) == ScanHeaders(hs, _date_candidates(date_label), 1)

(***************************************************************************)
(* The page as the DOM queries of fetch_cell_symbol see it.  A cell is     *)
(* [tag, text] with tag "th" or "td"; a row is the sequence of its cells   *)
(* in document order.                                                      *)
(***************************************************************************)
Cell(tag, text) == [tag |-> tag, text |-> text]

\* header_cells = query("thead th") or query("table tr:nth-child(1) th, td"),
\* each text normalized
Headers(pg) ==
    LET header_cells == IF pg.thead_th # <<>> THEN pg.thead_th ELSE pg.first_tr
    IN  [i \in 1..Len(header_cells) |-> normalize_text(header_cells[i])]

\* rows = query("tbody tr") or query("table tr")
Rows(pg) == IF pg.tbody_tr # <<>> THEN pg.tbody_tr ELSE pg.table_tr

RECURSIVE FirstOfTag(_, _, _)
\* r.query_selector(tag): position of the first cell with that tag, 0 if none
FirstOfTag(r, tag, i) ==
    IF i > Len(r) THEN 0
    ELSE IF r[i].tag = tag THEN i
    ELSE FirstOfTag(r, tag, i + 1)

\* first_cell = r.query_selector("th") or r.query_selector("td")
first_cell(r) ==
    IF FirstOfTag(r, "th", 1) # 0 THEN FirstOfTag(r, "th", 1) ELSE FirstOfTag(r, "td", 1)

RECURSIVE SelectTag(_, _)
\* r.query_selector_all("td")
SelectTag(r, tag) ==
    IF r = <<>> THEN <<>>
    ELSE IF Head(r).tag = tag THEN <<Head(r)>> \o SelectTag(Tail(r), tag)
    ELSE SelectTag(Tail(r), tag)

RECURSIVE ScanRows(_, _, _)
\* the row loop of fetch_cell_symbol from position i (1-based); 0-based result
ScanRows(rows, row_label, i) ==
    IF i > Len(rows) THEN None
    ELSE IF first_cell(rows[i]) = 0 THEN ScanRows(rows, row_label, i + 1)
    ELSE IF Contains(normalize_text(rows[i][first_cell(rows[i])].text), row_label)
         THEN i - 1
    ELSE ScanRows(rows, row_label, i + 1)

find_target_row(rows, row_label) == ScanRows(rows, row_label, 1)

(***************************************************************************)
(* The messages of the RuntimeErrors and the value main stores for one.    *)
(***************************************************************************)
ColumnNotFoundMsg(date_label) == <<"<header-kara-hizuke '">> \o date_label \o <<"' no retsu ga mitsukarimasen>">>

RowNotFoundMsg(row_label) == <<"<gyou '">> \o row_label \o <<"' ga mitsukarimasen>">>

IndexMismatchMsg(j, n) ==
    <<"<retsu index keisan ni shippai> (j=">> \o IntStr(j) \o <<", len=">> \o IntStr(n) \o <<").">>

CellNotFoundMsg == <<"<taishou cell wo shutoku dekimasen>">>

\* f"ERROR: {e}"
ErrorString(msg) == <<"E", "R", "R", "O", "R", ":", " ">> \o msg

(***************************************************************************)
(* The cell extraction of fetch_cell_symbol, lines 103-117: the outcome is *)
(* [raised, value], value the returned text or the exception's message.    *)
(***************************************************************************)
Returned(text) == [raised |-> FALSE, value |-> text]

Raised(msg) == [raised |-> TRUE, value |-> msg]

\* the offset adjustment left out
Offset_NoShift(k, ncells, nheaders) == k

\* j = col_idx - 1 if len(data_cells) + 1 == len(headers) else col_idx
Offset(k, ncells, nheaders) == IF ncells + 1 = nheaders THEN k - 1 ELSE k

\* the branch taken when data_cells is non-empty
extract_data_cells(data_cells, hs, k) ==
    LET j == Offset(k, Len(data_cells), Len(hs))
    IN  IF 0 <= j /\ j < Len(data_cells)
        THEN Returned(normalize_text(data_cells[j + 1].text))
        ELSE Raised(IndexMismatchMsg(j, Len(data_cells)))

\* the fallback over query_selector_all("th,td")
extract_fallback(cells, k) ==
    IF 0 <= k /\ k < Len(cells)
    THEN Returned(normalize_text(cells[k + 1].text))
    ELSE Raised(CellNotFoundMsg)

extract_cell(r, hs, k) ==
    LET data_cells == SelectTag(r, "td")
    IN  IF data_cells # <<>>
        THEN extract_data_cells(data_cells, hs, k)
        ELSE extract_fallback(r, k)

(***************************************************************************)
(* main: the query loop.  results is the dict in insertion order.          *)
(***************************************************************************)
RECURSIVE DictSet(_, _, _)
\* results[key] = value
DictSet(d, key, value) ==
    IF d = <<>> THEN <<[key |-> key, symbol |-> value]>>
    ELSE IF Head(d).key = key THEN <<[key |-> key, symbol |-> value]>> \o Tail(d)
    ELSE <<Head(d)>> \o DictSet(Tail(d), key, value)

Keys(d) == {d[i].key : i \in 1..Len(d)}

CurRow == TARGET_ROWS[ri]

CurDate == TARGET_DATE_LABELS[di]

\* a pair of the two nested for loops is still to be queried
InLoop == ri <= Len(TARGET_ROWS) /\ di <= Len(TARGET_DATE_LABELS)

\* the next iteration of the nested for loops, the call's locals gone
NextPair ==
    /\ IF di < Len(TARGET_DATE_LABELS)
       THEN ri' = ri /\ di' = di + 1
       ELSE ri' = ri + 1 /\ di' = 1
    /\ pc' = "loop"
    /\ headers' = <<>>
    /\ cands' = {}
    /\ col_idx' = None
    /\ target_row' = None

\* results[(row, d)] = symbol
StoreSymbol(symbol) ==
    /\ results' = DictSet(results, <<CurRow, CurDate>>, symbol)
    /\ failed' = failed \ {<<CurRow, CurDate>>}
    /\ NextPair

\* the exception leaves the loops instead of being caught per pair
StoreError_Abort(msg) ==
    /\ pc' = "classify"
    /\ ri' = Len(TARGET_ROWS) + 1
    /\ di' = 1
    /\ headers' = <<>>
    /\ cands' = {}
    /\ col_idx' = None
    /\ target_row' = None
    /\ UNCHANGED <<results, failed>>

\* except Exception as e: results[(row, d)] = f"ERROR: {e}"
StoreError(msg) ==
    /\ results' = DictSet(results, <<CurRow, CurDate>>, ErrorString(msg))
    /\ failed' = failed \cup {<<CurRow, CurDate>>}
    /\ NextPair

\* the column check comes too late: the row is looked up with no column resolved
ResolveColumn_Unchecked ==
    /\ pc = "loop"
    /\ InLoop
    /\ headers' = Headers(page)
    /\ cands' = _date_candidates(CurDate)
    /\ col_idx' = pick_column_index(Headers(page), CurDate)
    /\ pc' = "row"
    /\ UNCHANGED <<ri, di, target_row, results, failed>>
    /\ UNCHANGED <<page, TARGET_ROWS, TARGET_DATE_LABELS, ALWAYS_NOTIFY,
                   alerts, errors, printed, sent>>

\* fetch_cell_symbol, lines 82-87
ResolveColumn ==
    /\ pc = "loop"
    /\ InLoop
    /\ LET hs == Headers(page)
           k == pick_column_index(hs, CurDate)
       IN  IF k = None
           THEN /\ StoreError(ColumnNotFoundMsg(CurDate))
           ELSE /\ headers' = hs
                /\ cands' = _date_candidates(CurDate)
                /\ col_idx' = k
                /\ pc' = "row"
                /\ UNCHANGED <<ri, di, target_row, results, failed>>
    /\ UNCHANGED <<page, TARGET_ROWS, TARGET_DATE_LABELS, ALWAYS_NOTIFY,
                   alerts, errors, printed, sent>>

\* fetch_cell_symbol, lines 89-101
ResolveRow ==
    /\ pc = "row"
    /\ LET t == find_target_row(Rows(page), CurRow)
       IN  IF t = None
           THEN /\ StoreError(RowNotFoundMsg(CurRow))
           ELSE /\ target_row' = t
                /\ pc' = "cell"
                /\ UNCHANGED <<ri, di, headers, cands, col_idx, results, failed>>
    /\ UNCHANGED <<page, TARGET_ROWS, TARGET_DATE_LABELS, ALWAYS_NOTIFY,
                   alerts, errors, printed, sent>>

\* fetch_cell_symbol, lines 103-117, and the assignment of main
ExtractCell ==
    /\ pc = "cell"
    /\ LET out == extract_cell(Rows(page)[target_row + 1], headers, col_idx)
       IN  IF out.raised THEN StoreError(out.value) ELSE StoreSymbol(out.value)
    /\ UNCHANGED <<page, TARGET_ROWS, TARGET_DATE_LABELS, ALWAYS_NOTIFY,
                   alerts, errors, printed, sent>>

\* the loops end; browser.close()
EndLoop ==
    /\ pc = "loop"
    /\ ~InLoop
    /\ pc' = "classify"
    /\ UNCHANGED <<page, TARGET_ROWS, TARGET_DATE_LABELS, ALWAYS_NOTIFY,
                   ri, di, headers, cands, col_idx, target_row,
                   results, failed, alerts, errors, printed, sent>>

(***************************************************************************)
(* main: classification and report.                                        *)
(***************************************************************************)
AvailableMarkers == {<<"MARU">>, <<"CIRCLE">>, <<"SANKAKU">>}

PAGE_URL == <<"<https://reserve.fumotoppara.net/reserved/reserved-calendar-list>">>

\* f"{d} no {row}: {symbol}"
ItemLine(e) == e.key[2] \o <<" ", "NO", " ">> \o e.key[1] \o <<":", " ">> \o e.symbol

IsAlert(symbol) == symbol \in AvailableMarkers

IsError(symbol) == StartsWith(symbol, <<"E", "R", "R", "O", "R">>)

RECURSIVE CollectAlerts(_)
CollectAlerts(d) ==
    IF d = <<>> THEN <<>>
    ELSE (IF IsAlert(Head(d).symbol) THEN <<ItemLine(Head(d))>> ELSE <<>>)
         \o CollectAlerts(Tail(d))

RECURSIVE CollectErrors(_)
CollectErrors(d) ==
    IF d = <<>> THEN <<>>
    ELSE (IF ~IsAlert(Head(d).symbol) /\ IsError(Head(d).symbol)
          THEN <<ItemLine(Head(d))>> ELSE <<>>)
         \o CollectErrors(Tail(d))

\* lines 139-144
Classify ==
    /\ pc = "classify"
    /\ alerts' = CollectAlerts(results)
    /\ errors' = CollectErrors(results)
    /\ pc' = "report"
    /\ UNCHANGED <<page, TARGET_ROWS, TARGET_DATE_LABELS, ALWAYS_NOTIFY,
                   ri, di, headers, cands, col_idx, target_row,
                   results, failed, printed, sent>>

RECURSIVE Join(_, _)
\* sep.join(parts)
Join(parts, sep) ==
    IF parts = <<>> THEN <<>>
    ELSE IF Len(parts) = 1 THEN parts[1]
    ELSE parts[1] \o sep \o Join(Tail(parts), sep)

Bullets(items) == [i \in 1..Len(items) |-> <<"*">> \o items[i]]

TitleLine == <<"<fumotoppara aki kenchi (Messaging API)>">>

DatesLine == <<"<taishoubi>", ":", " ">> \o Join(TARGET_DATE_LABELS, <<",", " ">>)

UrlLine == <<"<kakunin>", ":", " ">> \o PAGE_URL

AlertsHeader == <<"<aki ari>">>

ErrorsHeader == <<"<shutoku error> (sankou)">>

NoVacancyHeader == <<"<aki nashi>">>

\* lines 147-155
MultiSectionMsg ==
    Join(<<TitleLine, DatesLine>>
         \o (IF alerts # <<>> THEN <<AlertsHeader>> \o Bullets(alerts) ELSE <<>>)
         \o (IF errors # <<>> THEN <<ErrorsHeader>> \o Bullets(errors) ELSE <<>>)
         \o <<UrlLine>>, <<"\n">>)

\* lines 165-170
NoVacancyMsg == Join(<<TitleLine, DatesLine, NoVacancyHeader, UrlLine>>, <<"\n">>)

Quoted(s) == <<"'">> \o s \o <<"'">>

\* str(results) for texts without quotes or backslashes
ReprResults(d) ==
    <<"{">>
    \o Join([i \in 1..Len(d) |->
               <<"(">> \o Quoted(d[i].key[1]) \o <<",", " ">> \o Quoted(d[i].key[2])
               \o <<")", ":", " ">> \o Quoted(d[i].symbol)], <<",", " ">>)
    \o <<"}">>

\* "aki nashi: " + str(results)
NoVacancyLog == <<"<aki nashi>", ":", " ">> \o ReprResults(results)

\* lines 146-160
ReportMulti ==
    /\ pc = "report"
    /\ alerts # <<>> \/ errors # <<>>
    /\ printed' = MultiSectionMsg
    /\ sent' = <<MultiSectionMsg>>
    /\ pc' = "done"
    /\ UNCHANGED <<page, TARGET_ROWS, TARGET_DATE_LABELS, ALWAYS_NOTIFY,
                   ri, di, headers, cands, col_idx, target_row,
                   results, failed, alerts, errors>>

\* lines 161-174
ReportEmpty ==
    /\ pc = "report"
    /\ ~(alerts # <<>> \/ errors # <<>>)
    /\ printed' = NoVacancyLog
    /\ sent' = IF ALWAYS_NOTIFY THEN <<NoVacancyMsg>> ELSE <<>>
    /\ pc' = "done"
    /\ UNCHANGED <<page, TARGET_ROWS, TARGET_DATE_LABELS, ALWAYS_NOTIFY,
                   ri, di, headers, cands, col_idx, target_row,
                   results, failed, alerts, errors>>

Next ==
    \/ ResolveColumn
    \/ ResolveRow
    \/ ExtractCell
    \/ EndLoop
    \/ Classify
    \/ ReportMulti
    \/ ReportEmpty

(***************************************************************************)
(* Inputs: texts, tables and configured labels.                            *)
(***************************************************************************)
SeqsUpTo(S, n) == UNION {[1..k -> S] : k \in 0..n}

Kubun == <<"KU", "BUN">>

Camp == <<"KI", "YA", "N", "PU">>

Stay == Camp \o <<"SHUKU", "HAKU">>

DayTrip == Camp \o <<"HI", "GAE", "RI">>

Maru == <<"MARU">>

Sankaku == <<"SANKAKU">>

Batsu == <<"BATSU">>

BatsuSpaced == <<" ", "BATSU", "\n">>

ErrorText == <<"E", "R", "R", "O", "R", " ", "5", "0", "0">>

D11_1 == <<"1", "1", "/", "1">>

D11_2 == <<"1", "1", "/", "2">>

D11_3 == <<"1", "1", "/", "3">>

D11_01 == <<"1", "1", "/", "0", "1">>

D11_10 == <<"1", "1", "/", "1", "0">>

D1_1 == <<"1", "/", "1">>

D1101 == <<"1", "1", "0", "1">>

H11_01Sat == <<" ", "1", "1", "/", "0", "1", "\n", "(", "SAT", ")", " ">>

H11_02Sun == <<"1", "1", "/", "0", "2", "(", "SUN", ")">>

Texts(r) == [i \in 1..Len(r) |-> r[i].text]

HeaderRow(H) == [i \in 1..Len(H) |-> Cell("th", H[i])]

\* a table with a thead of th cells and a tbody of rows
SectionedPage(H, R) ==
    [thead_th |-> H,
     first_tr |-> H \o (IF R = <<>> THEN <<>> ELSE Texts(R[1])),
     tbody_tr |-> R,
     table_tr |-> <<HeaderRow(H)>> \o R]

\* a table of tr elements alone, the first one the header row
PlainPage(H, R) ==
    [thead_th |-> <<>>,
     first_tr |-> H,
     tbody_tr |-> <<>>,
     table_tr |-> <<HeaderRow(H)>> \o R]

LabelledRow(tag, label, dtag, data) ==
    <<Cell(tag, label)>> \o [i \in 1..Len(data) |-> Cell(dtag, data[i])]

RowsA == <<LabelledRow("th", Stay, "td", <<Maru, Batsu>>),
           LabelledRow("th", DayTrip, "td", <<Sankaku, ErrorText>>)>>

RowsC == <<LabelledRow("th", DayTrip, "th", <<Sankaku, Batsu>>)>>

RowsFull == <<LabelledRow("th", Stay, "td", <<Batsu, BatsuSpaced>>),
              LabelledRow("td", DayTrip, "td", <<Batsu, Batsu>>)>>

RowsShort == <<LabelledRow("th", Stay, "td", <<Maru>>)>>

BatchPages ==
    {SectionedPage(<<Kubun, D11_1, D11_2>>, RowsA),
     PlainPage(<<Kubun, D11_1, D11_2>>, RowsA),
     SectionedPage(<<D11_1, D11_2>>, RowsC),
     SectionedPage(<<Kubun, D11_1, D11_2>>, RowsFull),
     SectionedPage(<<Kubun, D11_1, D11_2>>, RowsShort)}

BatchRowLabels == {Stay, DayTrip, <<"X">>}

BatchDateLabels == {D11_1, D11_2, D11_3}

\* the state main starts the query loop in
Start ==
    /\ pc = "loop"
    /\ ri = 1
    /\ di = 1
    /\ headers = <<>>
    /\ cands = {}
    /\ col_idx = None
    /\ target_row = None
    /\ results = <<>>
    /\ failed = {}
    /\ alerts = <<>>
    /\ errors = <<>>
    /\ printed = <<>>
    /\ sent = <<>>

Init ==
    /\ page \in BatchPages
    /\ TARGET_ROWS \in SeqsUpTo(BatchRowLabels, MaxRowLabels)
    /\ TARGET_DATE_LABELS \in SeqsUpTo(BatchDateLabels, MaxDateLabels)
    /\ ALWAYS_NOTIFY \in BOOLEAN
    /\ Start

Spec == Init /\ [][Next]_vars

\* one query against tables of every shape: header counts, td or th data cells
CellHeaderTexts == {Kubun, D11_1, D11_2}

CellDataTexts == {Sankaku, BatsuSpaced}

CellRows ==
    {LabelledRow(tag, Stay, dtag, data) :
        tag \in {"th", "td"}, dtag \in {"th", "td"},
        data \in SeqsUpTo(CellDataTexts, MaxCells)}

InitCell ==
    /\ page \in {SectionedPage(H, <<r>>) :
                    H \in SeqsUpTo(CellHeaderTexts, MaxHeaders), r \in CellRows}
    /\ TARGET_ROWS = <<Stay>>
    /\ TARGET_DATE_LABELS \in {<<D11_1>>, <<D11_2>>, <<D11_1, D11_2>>}
    /\ ALWAYS_NOTIFY = FALSE
    /\ Start

SpecCell == InitCell /\ [][Next]_vars

\* one query against every header sequence, and against every row sequence
ColHeaderTexts == {Kubun, D11_1, D11_10, H11_01Sat, D1_1}

ColDateLabels == {D11_1, D11_01, D1_1, D11_2, D1101}

SpacedLabel == <<"\n", "PU", " ", " ", "HI", " ">>

RowPool ==
    {LabelledRow("th", Stay, "td", <<Maru>>),
     LabelledRow("th", DayTrip, "td", <<Batsu>>),
     <<>>,
     LabelledRow("td", SpacedLabel, "td", <<Sankaku>>)}

ColRowLabels == {Camp, Stay, DayTrip, <<"PU", " ", "HI">>, <<"X">>}

InitColumn ==
    /\ \/ /\ page \in {SectionedPage(H, RowsA) : H \in SeqsUpTo(ColHeaderTexts, MaxCols)}
                     \cup {PlainPage(H, RowsA) : H \in SeqsUpTo(ColHeaderTexts, MaxCols)}
          /\ TARGET_ROWS = <<Stay>>
          /\ TARGET_DATE_LABELS \in {<<d>> : d \in ColDateLabels}
       \/ /\ page \in {SectionedPage(<<Kubun, D11_1, D11_01>>, R) : R \in SeqsUpTo(RowPool, MaxRows)}
          /\ TARGET_ROWS \in {<<l>> : l \in ColRowLabels}
          /\ TARGET_DATE_LABELS = <<D11_1>>
    /\ ALWAYS_NOTIFY = FALSE
    /\ Start

SpecColumn == InitColumn /\ [][Next]_vars

\* one query for every date label M/D with a day of digits, and labels without "/"
Months == {<<"1">>, <<"1", "1">>}

DayDigits == {"0", "1", "2"}

SlashLabels == {m \o <<"/">> \o d : m \in Months, d \in SeqsUpTo(DayDigits, MaxDayLen)}

InitDate ==
    /\ page = SectionedPage(<<Kubun, D11_1, H11_02Sun>>, RowsA)
    /\ TARGET_ROWS = <<Stay>>
    /\ TARGET_DATE_LABELS \in {<<d>> : d \in SlashLabels \cup {D1101, <<>>}}
    /\ ALWAYS_NOTIFY = FALSE
    /\ Start

SpecDate == InitDate /\ [][Next]_vars

(***************************************************************************)
(* Properties.                                                             *)
(***************************************************************************)
Range(f) == {f[i] : i \in 1..Len(f)}

NoDuplicates(f) == \A i, j \in 1..Len(f) : f[i] = f[j] => i = j

LoopDone == pc \in {"classify", "report", "done"}

\* the cross product of the configured labels
Queries == {<<r, d>> : r \in Range(TARGET_ROWS), d \in Range(TARGET_DATE_LABELS)}

ColumnOf(q) == pick_column_index(Headers(page), q[2])

RowOf(q) == find_target_row(Rows(page), q[1])

\* the queries whose date label matches no header
Unresolvable == {q \in Queries : ColumnOf(q) = None}

\* the column, the row and the cell of the query can all be resolved
Resolves(q) ==
    /\ ColumnOf(q) # None
    /\ RowOf(q) # None
    /\ ~extract_cell(Rows(page)[RowOf(q) + 1], Headers(page), ColumnOf(q)).raised

\* one entry per query and no other, every raised query stored as a failure
OneResultPerQuery ==
    /\ Keys(results) = Queries
    /\ Len(results) = Cardinality(Queries)
    /\ failed \subseteq Keys(results)
    /\ \A i \in 1..Len(results) :
          results[i].key \in failed => StartsWith(results[i].symbol, ErrorString(<<>>))

\* C1 as stated: after the query loop, with unique pairs, the mapping has exactly
\* one entry per pair of the cross product, a raised query is stored and not
\* propagated, and if exactly one query has an unresolvable date label there are
\* N-1 Symbol results and exactly 1 Failure.
C1_Original ==
    (LoopDone /\ NoDuplicates(TARGET_ROWS) /\ NoDuplicates(TARGET_DATE_LABELS)) =>
        /\ OneResultPerQuery
        /\ Cardinality(Unresolvable) = 1 =>
              /\ Cardinality(failed) = 1
              /\ Cardinality(Keys(results) \ failed) = Cardinality(Queries) - 1

\* C1 amended: the same, the N-1 Symbol / 1 Failure count holding when the other
\* N-1 queries resolve their column, row and cell; in every case the Failures are
\* exactly the queries that do not resolve.
C1_FailureIsolation ==
    (LoopDone /\ NoDuplicates(TARGET_ROWS) /\ NoDuplicates(TARGET_DATE_LABELS)) =>
        /\ OneResultPerQuery
        /\ failed = {q \in Queries : ~Resolves(q)}
        /\ (Cardinality(Unresolvable) = 1
            /\ \A q \in Queries \ Unresolvable : Resolves(q)) =>
              /\ Cardinality(failed) = 1
              /\ Cardinality(Keys(results) \ failed) = Cardinality(Queries) - 1

C1_Witness ==
    /\ pc = "done"
    /\ NoDuplicates(TARGET_ROWS) /\ NoDuplicates(TARGET_DATE_LABELS)
    /\ Cardinality(Queries) = 2
    /\ Cardinality(Unresolvable) = 1
    /\ \A q \in Queries \ Unresolvable : Resolves(q)
    /\ Cardinality(failed) = 1
    /\ Len(results) = 2

(***************************************************************************)
(* C5, C6: classification and report form.                                 *)
(***************************************************************************)
Classified == pc \in {"report", "done"}

\* the result kinds of the specification: a Failure is a query that raised,
\* a Symbol a query that returned a cell text
IsFailure(e) == e.key \in failed

IsAvailable(e) == e.key \notin failed /\ e.symbol \in AvailableMarkers

ListedIn(e, section) == ItemLine(e) \in Range(section)

\* C5: after classification every pair is listed under errors if and only if
\* its result is a Failure, and under available if and only if its result is a
\* Symbol whose text is an availability marker; no pair is in both sections.
C5_PartitionByKind ==
    Classified =>
        \A i \in 1..Len(results) :
            /\ ListedIn(results[i], errors) <=> IsFailure(results[i])
            /\ ListedIn(results[i], alerts) <=> IsAvailable(results[i])
            /\ ~(ListedIn(results[i], errors) /\ ListedIn(results[i], alerts))

MultiSectionRendered == printed = MultiSectionMsg /\ sent = <<MultiSectionMsg>>

ShortFormRendered == printed = NoVacancyLog

\* C6: the multi-section report is rendered if and only if some pair is
\* available or errored; otherwise the short form is produced, and with
\* notify-on-empty false nothing is handed to the notification collaborator.
C6_ReportForm ==
    pc = "done" =>
        LET some == \E i \in 1..Len(results) :
                        IsFailure(results[i]) \/ IsAvailable(results[i])
        IN  /\ some <=> MultiSectionRendered
            /\ ~some => ShortFormRendered /\ (~ALWAYS_NOTIFY => sent = <<>>)

(***************************************************************************)
(* C9: resolution order within one query.                                  *)
(***************************************************************************)
IsColumnFailure(e) ==
    e.key \in failed /\ e.symbol = ErrorString(ColumnNotFoundMsg(e.key[2]))

IsRowFailure(e) ==
    e.key \in failed /\ e.symbol = ErrorString(RowNotFoundMsg(e.key[1]))

IsExtractionFailure(e) ==
    e.key \in failed /\ ~IsColumnFailure(e) /\ ~IsRowFailure(e)

\* C9: the column is resolved before the row and the row before the cell: a
\* pair whose date label matches no header is recorded as column-not-found even
\* when its row label matches no row, a row-not-found failure is recorded only
\* when the column resolved, an extraction failure only when both resolved; the
\* row lookup runs with a resolved column, the extraction with a resolved row.
C9_ResolutionOrder ==
    /\ pc \in {"row", "cell"} => col_idx # None
    /\ pc = "cell" => target_row # None
    /\ \A i \in 1..Len(results) :
          LET e == results[i]
          IN  /\ ColumnOf(e.key) = None => IsColumnFailure(e)
              /\ IsRowFailure(e) => ColumnOf(e.key) # None /\ RowOf(e.key) = None
              /\ IsExtractionFailure(e) => ColumnOf(e.key) # None /\ RowOf(e.key) # None

C9_Witness ==
    /\ pc = "done"
    /\ \E i, j, k \in 1..Len(results) :
          /\ ColumnOf(results[i].key) = None /\ RowOf(results[i].key) = None
          /\ IsColumnFailure(results[i])
          /\ IsRowFailure(results[j])
          /\ IsExtractionFailure(results[k])

(***************************************************************************)
(* C2, C3, C4: cell extraction.                                            *)
(***************************************************************************)
\* the query resolved a column and a row, so that the extraction ran
Extracted(e) == ColumnOf(e.key) # None /\ RowOf(e.key) # None

ResolvedRow(e) == Rows(page)[RowOf(e.key) + 1]

DataCells(e) == SelectTag(ResolvedRow(e), "td")

\* C2: when the resolved row has data cells and the headers have more than one
\* entry more than the row's data cells, the extraction ends in a Failure and
\* returns no cell text.
C2_InvariantViolationFails ==
    \A i \in 1..Len(results) :
        LET e == results[i]
        IN  (/\ Extracted(e)
             /\ DataCells(e) # <<>>
             /\ Len(Headers(page)) > Len(DataCells(e)) + 1) => IsFailure(e)

\* C3: when the resolved row has no separate data cells and its label is slot 0
\* of the combined sequence, resolved header index k yields the normalized text
\* of combined slot k+1.
C3_FallbackAlignment ==
    \A i \in 1..Len(results) :
        LET e == results[i]
            r == ResolvedRow(e)
            k == ColumnOf(e.key)
        IN  (/\ Extracted(e)
             /\ DataCells(e) = <<>>
             /\ first_cell(r) = 1
             /\ k + 2 <= Len(r)) =>
                ~IsFailure(e) /\ e.symbol = normalize_text(r[k + 2].text)

\* C4: when the resolved row has data cells and len(cells) + 1 = len(headers),
\* a column index k >= 1 yields the normalized text of cells[k-1], and k = 0
\* yields the index-mismatch Failure for j = -1.
C4_OffsetExtraction ==
    \A i \in 1..Len(results) :
        LET e == results[i]
            cells == DataCells(e)
            k == ColumnOf(e.key)
        IN  (/\ Extracted(e)
             /\ cells # <<>>
             /\ Len(cells) + 1 = Len(Headers(page))) =>
                /\ k >= 1 => ~IsFailure(e) /\ e.symbol = normalize_text(cells[k].text)
                /\ k = 0 => /\ IsFailure(e)
                            /\ e.symbol = ErrorString(IndexMismatchMsg(-1, Len(cells)))

C4_Witness ==
    /\ pc = "done"
    /\ Len(results) = 2
    /\ \A i \in 1..2 : /\ Extracted(results[i])
                       /\ DataCells(results[i]) # <<>>
                       /\ Len(DataCells(results[i])) + 1 = Len(Headers(page))
    /\ ColumnOf(results[1].key) = 0
    /\ IsFailure(results[1])
    /\ ColumnOf(results[2].key) = 1
    /\ results[2].symbol = Batsu
    /\ DataCells(results[2])[1].text = BatsuSpaced

(***************************************************************************)
(* C7: first-match resolution of the column and of the row.                *)
(***************************************************************************)
\* some date candidate is a substring of the normalized header
HeaderMatches(h, date_label) ==
    \E c \in _date_candidates(date_label) : Contains(normalize_text(h), c)

\* the row has a leading cell whose normalized text contains the row label
RowMatches(r, row_label) ==
    /\ first_cell(r) # 0
    /\ Contains(normalize_text(r[first_cell(r)].text), row_label)

\* C7: the resolved column is the smallest index whose header contains a date
\* candidate, and column-not-found is recorded exactly when no header contains
\* one (the empty header sequence included); the resolved row is the first row
\* whose leading label contains the row label, rows without a leading cell
\* skipped, and row-not-found is recorded exactly when the column resolved and
\* no row matches.
C7_FirstMatch ==
    /\ pc \in {"row", "cell"} =>
          /\ headers = Headers(page)
          /\ col_idx \in 0..(Len(headers) - 1)
          /\ HeaderMatches(headers[col_idx + 1], CurDate)
          /\ \A i \in 1..col_idx : ~HeaderMatches(headers[i], CurDate)
    /\ pc = "cell" =>
          /\ target_row \in 0..(Len(Rows(page)) - 1)
          /\ RowMatches(Rows(page)[target_row + 1], CurRow)
          /\ \A i \in 1..target_row : ~RowMatches(Rows(page)[i], CurRow)
    /\ \A n \in 1..Len(results) :
          LET e == results[n]
              hs == Headers(page)
              noHeader == \A i \in 1..Len(hs) : ~HeaderMatches(hs[i], e.key[2])
              noRow == \A i \in 1..Len(Rows(page)) : ~RowMatches(Rows(page)[i], e.key[1])
          IN  /\ IsColumnFailure(e) <=> noHeader
              /\ IsRowFailure(e) <=> (~noHeader /\ noRow)

C7_Witness ==
    /\ pc = "cell"
    /\ Len(headers) = 3
    /\ col_idx = 1
    /\ HeaderMatches(headers[3], CurDate)
    /\ Len(Rows(page)) = 3
    /\ target_row = 1
    /\ first_cell(Rows(page)[1]) = 0
    /\ RowMatches(Rows(page)[3], CurRow)

(***************************************************************************)
(* C10: the resolved header is a header of the queried date.               *)
(***************************************************************************)
Digits == {"0", "1", "2", "3", "4", "5", "6", "7", "8", "9"}

AllDigits(s) == \A i \in 1..Len(s) : s[i] \in Digits

RECURSIVE DigitPrefix(_)
DigitPrefix(s) ==
    IF s # <<>> /\ Head(s) \in Digits THEN <<Head(s)>> \o DigitPrefix(Tail(s)) ELSE <<>>

MonthPart(s) == SubSeq(s, 1, FindChar(s, "/", 1) - 1)

AfterSlash(s) == SubSeq(s, FindChar(s, "/", 1) + 1, Len(s))

\* a date, optionally followed by an annotation: digits "/" digits ...
IsDateText(s) ==
    /\ FindChar(s, "/", 1) > 1
    /\ AllDigits(MonthPart(s))
    /\ DigitPrefix(AfterSlash(s)) # <<>>

\* the label is exactly M/D
IsDateLabel(s) == IsDateText(s) /\ AllDigits(AfterSlash(s))

\* the (month, day) a date text denotes, leading zeros ignored
DateOf(s) == <<LStrip(MonthPart(s), {"0"}), LStrip(DigitPrefix(AfterSlash(s)), {"0"})>>

AllDateHeaders == \A i \in 1..Len(Headers(page)) : IsDateText(Headers(page)[i])

\* C10: with every header a date text, a label M/D resolves only to a header
\* that denotes month M and day D, and to column-not-found when no header does.
C10_SameDate ==
    AllDateHeaders =>
        /\ (pc \in {"row", "cell"} /\ IsDateLabel(CurDate)) =>
              DateOf(headers[col_idx + 1]) = DateOf(CurDate)
        /\ \A n \in 1..Len(results) :
              LET e == results[n]
                  hs == Headers(page)
              IN  IsDateLabel(e.key[2]) =>
                     /\ ColumnOf(e.key) # None =>
                           DateOf(hs[ColumnOf(e.key) + 1]) = DateOf(e.key[2])
                     /\ (\A i \in 1..Len(hs) : DateOf(hs[i]) # DateOf(e.key[2])) =>
                           IsColumnFailure(e)

(***************************************************************************)
(* C8: the date candidates.                                                *)
(***************************************************************************)
HasSlash(s) == FindChar(s, "/", 1) > 0

NoLeadingZero(day) == day = <<"0">> \/ (day # <<>> /\ day[1] # "0")

\* every member keeps the month and the day value of the label
SameDate(label, C) ==
    \A c \in C : /\ HasSlash(c)
                 /\ MonthPart(c) = MonthPart(label)
                 /\ LStrip(AfterSlash(c), {"0"}) = LStrip(AfterSlash(label), {"0"})

\* a variant without a leading zero and a variant of two characters
BothVariants(C) ==
    /\ \E c \in C : NoLeadingZero(AfterSlash(c))
    /\ \E c \in C : Len(AfterSlash(c)) = 2

CandidatesAsStated(label, C) ==
    /\ C # {}
    /\ (HasSlash(label) /\ AllDigits(AfterSlash(label))) =>
          BothVariants(C) /\ SameDate(label, C)
    /\ ~HasSlash(label) => C = {label}

CandidatesAmended(label, C) ==
    /\ C # {}
    /\ (HasSlash(label) /\ AllDigits(AfterSlash(label))) =>
          /\ SameDate(label, C)
          /\ \E c \in C : NoLeadingZero(AfterSlash(c))
          /\ Len(AfterSlash(label)) <= 2 => \E c \in C : Len(AfterSlash(c)) = 2
          /\ Len(AfterSlash(label)) > 2 => label \in C
    /\ ~HasSlash(label) => C = {label}

\* the date labels pick_column_index has been called with
QueriedDates == {results[i].key[2] : i \in 1..Len(results)}

\* C8 as stated: for a label M/D with D a digit string the candidates are
\* non-empty, hold a variant whose day has no leading zero and a variant whose
\* day is zero-padded to two characters, all of the same month and day value;
\* for a label without "/" the set is the label alone.
C8_Original ==
    /\ \A d \in QueriedDates : CandidatesAsStated(d, _date_candidates(d))
    /\ pc \in {"row", "cell"} => CandidatesAsStated(CurDate, cands)

\* C8 amended: the two-character variant is there for a day of at most two
\* characters; for a longer day the second variant is the label itself.
C8_DateCandidates ==
    /\ \A d \in QueriedDates : CandidatesAmended(d, _date_candidates(d))
    /\ pc \in {"row", "cell"} => CandidatesAmended(CurDate, cands)

C8_Witness ==
    /\ pc = "cell"
    /\ CurDate = <<"1", "1", "/", "2">>
    /\ cands = {<<"1", "1", "/", "2">>, <<"1", "1", "/", "0", "2">>}
    /\ headers[col_idx + 1] = H11_02Sun

====
